---- MODULE Spec2Model ----
(***************************************************************************)
(* Book_Swap: an express server over four StableBTreeMap tables.           *)
(*                                                                         *)
(* The repository holds two revisions of the server.  src/src/index.ts     *)
(* validates a create body with the generic presence helper                *)
(* validateRequestBody; src/unnamed/part_000 validates it with a           *)
(* hand-written truthiness-and-typeof test per route.  Everything else     *)
(* (entity classes, tables, try/catch, responses) is the same in both.     *)
(* The variable impl says which revision is deployed; it never changes.    *)
(*                                                                         *)
(* Every handler is synchronous JavaScript (no await), so one request is   *)
(* one atomic step and concurrent requests are an interleaving of steps.   *)
(***************************************************************************)
EXTENDS Integers, FiniteSets, Sequences, TLC

VARIABLES
    impl,                 \* "index" (src/src/index.ts) or "part_000"
    usersStorage,         \* StableBTreeMap<string, User>(0)
    booksStorage,         \* StableBTreeMap<string, Book>(1)
    swapRequestsStorage,  \* StableBTreeMap<string, SwapRequest>(2)
    feedbackStorage,      \* StableBTreeMap<string, Feedback>(3)
    nextUuid,             \* how many ids uuidv4() has handed out
    clock,                \* what new Date() returns
    req,                  \* the request handled last
    res,                  \* the response sent last
    created               \* history: per path, the entities answered with 201

tables == <<usersStorage, booksStorage, swapRequestsStorage, feedbackStorage>>
vars == <<impl, usersStorage, booksStorage, swapRequestsStorage, feedbackStorage,
          nextUuid, clock, req, res, created>>

(***************************************************************************)
(* Bounds.                                                                 *)
(***************************************************************************)
\* entities constructed (uuidv4 calls) in a run of Spec
MaxUuids == 3
\* entities constructed in a run of SpecValidation
MaxUuidsV == 1
\* largest value of the clock
MaxClock == 1

(***************************************************************************)
(* JSON values of a request body.  Undefined is a field that is absent.    *)
(***************************************************************************)
Undefined == [t |-> "undefined", s |-> "", n |-> 0]
Null == [t |-> "null", s |-> "", n |-> 0]
Str(s) == [t |-> "string", s |-> s, n |-> 0]
Num(n) == [t |-> "number", s |-> "", n |-> n]

\* JavaScript typeof
typeof(v) == IF v.t = "null" THEN "object" ELSE v.t

\* JavaScript truthiness, the operand of `!` in part_000's checks
truthy(v) ==
    CASE v.t = "undefined" -> FALSE
      [] v.t = "null" -> FALSE
      [] v.t = "string" -> v.s # ""
      [] v.t = "number" -> v.n # 0

Paths == {"/users", "/books", "/swapRequests", "/feedback"}

EmptyTable == [k \in {} |-> 0]

\* StableBTreeMap.insert(key, value): adds the entry, silently replacing an
\* entry that has the same key.
insert(t, key, value) ==
    [k \in DOMAIN t \cup {key} |-> IF k = key THEN value ELSE t[k]]

\* StableBTreeMap.values(): all stored values.  The order of the array is the
\* order of random keys and carries no information; the array is modelled by
\* its elements.
values(t) == {t[k] : k \in DOMAIN t}

\* uuid's v4(): a string no earlier call returned.
uuidv4 == "id" \o ToString(nextUuid + 1)

(***************************************************************************)
(* Entity classes: the constructor takes a fresh id and the current time   *)
(* and keeps the arguments as they are.                                    *)
(***************************************************************************)
\* the email used as the id
User_idFromEmail(name, email) ==
    [id |-> email.s, name |-> name, email |-> email, createdAt |-> clock]

User(name, email) ==
    [id |-> uuidv4, name |-> name, email |-> email, createdAt |-> clock]

Book(userId, title, author, description) ==
    [id |-> uuidv4, userId |-> userId, title |-> title, author |-> author,
     description |-> description, createdAt |-> clock]

SwapRequest(bookId, requestedById, status) ==
    [id |-> uuidv4, bookId |-> bookId, requestedById |-> requestedById,
     status |-> status, createdAt |-> clock]

Feedback(userId, swapRequestId, rating, comment) ==
    [id |-> uuidv4, userId |-> userId, swapRequestId |-> swapRequestId,
     rating |-> rating, comment |-> comment, createdAt |-> clock]

(***************************************************************************)
(* Validation, index.ts: the generic presence helper.                      *)
(***************************************************************************)
\* some() where every() is meant
validateRequestBody_some(body, requiredFields) ==
    \E i \in 1..Len(requiredFields) :
        body[requiredFields[i]] # Undefined /\ body[requiredFields[i]] # Null

validateRequestBody(body, requiredFields) ==
    \A i \in 1..Len(requiredFields) :
        body[requiredFields[i]] # Undefined /\ body[requiredFields[i]] # Null

(***************************************************************************)
(* Validation, part_000: the condition of each route's `if`, which answers *)
(* 400 when it is true.                                                    *)
(***************************************************************************)
\* !x || typeof x !== "string"
notString(v) == ~truthy(v) \/ typeof(v) # "string"

\* !x || typeof x !== "number"
notNumber(v) == ~truthy(v) \/ typeof(v) # "number"

usersBodyRejected(body) ==
    notString(body.name) \/ notString(body.email)

booksBodyRejected(body) ==
    \/ notString(body.userId)
    \/ notString(body.title)
    \/ notString(body.author)
    \/ notString(body.description)

swapRequestsBodyRejected(body) ==
    \/ notString(body.bookId)
    \/ notString(body.requestedById)
    \/ notString(body.status)

feedbackBodyRejected(body) ==
    \/ notString(body.userId)
    \/ notString(body.swapRequestId)
    \/ notNumber(body.rating)
    \/ notString(body.comment)

(***************************************************************************)
(* Whether the deployed revision lets a create body through.               *)
(***************************************************************************)
usersBodyOk(body) ==
    IF impl = "index" THEN validateRequestBody(body, <<"name", "email">>)
    ELSE ~usersBodyRejected(body)

booksBodyOk(body) ==
    IF impl = "index"
    THEN validateRequestBody(body, <<"userId", "title", "author", "description">>)
    ELSE ~booksBodyRejected(body)

swapRequestsBodyOk(body) ==
    IF impl = "index"
    THEN validateRequestBody(body, <<"bookId", "requestedById", "status">>)
    ELSE ~swapRequestsBodyRejected(body)

feedbackBodyOk(body) ==
    IF impl = "index"
    THEN validateRequestBody(body, <<"userId", "swapRequestId", "rating", "comment">>)
    ELSE ~feedbackBodyRejected(body)

(***************************************************************************)
(* Responses.  entities holds the entity of a 201 answer or the array of a *)
(* 200 answer, under the JSON key named by key.                            *)
(***************************************************************************)
NoRequest == [method |-> "", path |-> "", body |-> EmptyTable, fails |-> FALSE]
NoResponse == [status |-> 0, message |-> "", error |-> "", key |-> "", entities |-> {}]

\* res.status(400).json({ error })
badRequest(error) ==
    [status |-> 400, message |-> "", error |-> error, key |-> "", entities |-> {}]

\* the catch block: res.status(500).json({ error })
serverError(error) ==
    [status |-> 500, message |-> "", error |-> error, key |-> "", entities |-> {}]

\* res.status(201).json({ message, <key>: entity })
createdResponse(message, key, entity) ==
    [status |-> 201, message |-> message, error |-> "", key |-> key,
     entities |-> {entity}]

\* res.status(200).json({ message, <key>: array })
listResponse(message, key, array) ==
    [status |-> 200, message |-> message, error |-> "", key |-> key,
     entities |-> array]

\* the history of 201 answers
recordCreated(path, entity) ==
    [created EXCEPT ![path] = @ \cup {entity}]


(***************************************************************************)
(* The one table mutation of each create handler.                          *)
(***************************************************************************)
\* usersStorage.insert(user.id, user)
storeUser(user) ==
    /\ usersStorage' = insert(usersStorage, user.id, user)
    /\ UNCHANGED <<booksStorage, swapRequestsStorage, feedbackStorage>>

\* the book also written to the users table
storeBook_andUser(book) ==
    /\ booksStorage' = insert(booksStorage, book.id, book)
    /\ usersStorage' = insert(usersStorage, book.id, book)
    /\ UNCHANGED <<swapRequestsStorage, feedbackStorage>>

\* booksStorage.insert(book.id, book)
storeBook(book) ==
    /\ booksStorage' = insert(booksStorage, book.id, book)
    /\ UNCHANGED <<usersStorage, swapRequestsStorage, feedbackStorage>>

\* swapRequestsStorage.insert(swapRequest.id, swapRequest)
storeSwapRequest(swapRequest) ==
    /\ swapRequestsStorage' = insert(swapRequestsStorage, swapRequest.id, swapRequest)
    /\ UNCHANGED <<usersStorage, booksStorage, feedbackStorage>>

\* the feedback keyed by its author instead of its own id
storeFeedback_keyedByUser(feedback) ==
    /\ feedbackStorage' = insert(feedbackStorage, feedback.userId.s, feedback)
    /\ UNCHANGED <<usersStorage, booksStorage, swapRequestsStorage>>

\* feedbackStorage.insert(feedback.id, feedback)
storeFeedback(feedback) ==
    /\ feedbackStorage' = insert(feedbackStorage, feedback.id, feedback)
    /\ UNCHANGED <<usersStorage, booksStorage, swapRequestsStorage>>

Init ==
    /\ impl \in {"index", "part_000"}
    /\ usersStorage = EmptyTable
    /\ booksStorage = EmptyTable
    /\ swapRequestsStorage = EmptyTable
    /\ feedbackStorage = EmptyTable
    /\ nextUuid = 0
    /\ clock = 0
    /\ req = NoRequest
    /\ res = NoResponse
    /\ created = [p \in Paths |-> {}]

\* the 201 answer sent before the insert is tried
PostUsers_respondFirst(bodies, max) ==
    \E body \in bodies, fails \in BOOLEAN :
        /\ UNCHANGED <<impl, clock>>
        /\ IF ~usersBodyOk(body)
           THEN /\ ~fails
                /\ req' = [method |-> "POST", path |-> "/users", body |-> body,
                           fails |-> FALSE]
                /\ res' = badRequest("Invalid input: Ensure 'name' and 'email' are provided and are strings.")
                /\ UNCHANGED <<tables, nextUuid, created>>
           ELSE LET user == User(body.name, body.email) IN
                /\ nextUuid < max
                /\ nextUuid' = nextUuid + 1
                /\ req' = [method |-> "POST", path |-> "/users", body |-> body,
                           fails |-> fails]
                /\ res' = createdResponse("User created successfully", "user", user)
                /\ created' = recordCreated("/users", user)
                /\ IF fails THEN UNCHANGED tables ELSE storeUser(user)

(***************************************************************************)
(* POST /users.  bodies is the set the request body is drawn from and max  *)
(* caps the number of entities constructed.  fails says that the insert    *)
(* throws; a throwing insert stores nothing.                               *)
(***************************************************************************)
PostUsers(bodies, max) ==
    \E body \in bodies, fails \in BOOLEAN :
        /\ UNCHANGED <<impl, clock>>
        /\ IF ~usersBodyOk(body)
           THEN /\ ~fails
                /\ req' = [method |-> "POST", path |-> "/users", body |-> body,
                           fails |-> FALSE]
                /\ res' = badRequest("Invalid input: Ensure 'name' and 'email' are provided and are strings.")
                /\ UNCHANGED <<tables, nextUuid, created>>
           ELSE LET user == User(body.name, body.email) IN
                /\ nextUuid < max
                /\ nextUuid' = nextUuid + 1
                /\ req' = [method |-> "POST", path |-> "/users", body |-> body,
                           fails |-> fails]
                /\ IF fails
                   THEN /\ res' = serverError("Server error occurred while creating the user.")
                        /\ UNCHANGED <<tables, created>>
                   ELSE /\ storeUser(user)
                        /\ res' = createdResponse("User created successfully", "user", user)
                        /\ created' = recordCreated("/users", user)

\* a list that empties the table it reads
GetUsers_destructive ==
    \E fails \in BOOLEAN :
        /\ req' = [method |-> "GET", path |-> "/users", body |-> EmptyTable,
                   fails |-> fails]
        /\ res' = IF fails
                  THEN serverError("Server error occurred while retrieving users.")
                  ELSE listResponse("Users retrieved successfully", "users",
                                    values(usersStorage))
        /\ usersStorage' = IF fails THEN usersStorage ELSE EmptyTable
        /\ UNCHANGED <<impl, booksStorage, swapRequestsStorage, feedbackStorage,
                       nextUuid, clock, created>>

\* GET /users.  fails says that values() throws.
GetUsers ==
    \E fails \in BOOLEAN :
        /\ req' = [method |-> "GET", path |-> "/users", body |-> EmptyTable,
                   fails |-> fails]
        /\ res' = IF fails
                  THEN serverError("Server error occurred while retrieving users.")
                  ELSE listResponse("Users retrieved successfully", "users",
                                    values(usersStorage))
        /\ UNCHANGED <<impl, tables, nextUuid, clock, created>>

\* a book refused unless its userId is the id of a stored user
PostBooks_foreignKey(bodies, max) ==
    \E body \in bodies, fails \in BOOLEAN :
        /\ UNCHANGED <<impl, clock>>
        /\ IF ~booksBodyOk(body) \/ body.userId.s \notin DOMAIN usersStorage
           THEN /\ ~fails
                /\ req' = [method |-> "POST", path |-> "/books", body |-> body,
                           fails |-> FALSE]
                /\ res' = badRequest("Invalid input: Ensure 'userId', 'title', 'author', and 'description' are provided and are of the correct types.")
                /\ UNCHANGED <<tables, nextUuid, created>>
           ELSE LET book == Book(body.userId, body.title, body.author, body.description) IN
                /\ nextUuid < max
                /\ nextUuid' = nextUuid + 1
                /\ req' = [method |-> "POST", path |-> "/books", body |-> body,
                           fails |-> fails]
                /\ IF fails
                   THEN /\ res' = serverError("Server error occurred while creating the book.")
                        /\ UNCHANGED <<tables, created>>
                   ELSE /\ storeBook(book)
                        /\ res' = createdResponse("Book created successfully", "book", book)
                        /\ created' = recordCreated("/books", book)

\* POST /books
PostBooks(bodies, max) ==
    \E body \in bodies, fails \in BOOLEAN :
        /\ UNCHANGED <<impl, clock>>
        /\ IF ~booksBodyOk(body)
           THEN /\ ~fails
                /\ req' = [method |-> "POST", path |-> "/books", body |-> body,
                           fails |-> FALSE]
                /\ res' = badRequest("Invalid input: Ensure 'userId', 'title', 'author', and 'description' are provided and are of the correct types.")
                /\ UNCHANGED <<tables, nextUuid, created>>
           ELSE LET book == Book(body.userId, body.title, body.author, body.description) IN
                /\ nextUuid < max
                /\ nextUuid' = nextUuid + 1
                /\ req' = [method |-> "POST", path |-> "/books", body |-> body,
                           fails |-> fails]
                /\ IF fails
                   THEN /\ res' = serverError("Server error occurred while creating the book.")
                        /\ UNCHANGED <<tables, created>>
                   ELSE /\ storeBook(book)
                        /\ res' = createdResponse("Book created successfully", "book", book)
                        /\ created' = recordCreated("/books", book)

\* the books list read from the users table
GetBooks_wrongTable ==
    \E fails \in BOOLEAN :
        /\ req' = [method |-> "GET", path |-> "/books", body |-> EmptyTable,
                   fails |-> fails]
        /\ res' = IF fails
                  THEN serverError("Server error occurred while retrieving books.")
                  ELSE listResponse("Books retrieved successfully", "books",
                                    values(usersStorage))
        /\ UNCHANGED <<impl, tables, nextUuid, clock, created>>

\* GET /books
GetBooks ==
    \E fails \in BOOLEAN :
        /\ req' = [method |-> "GET", path |-> "/books", body |-> EmptyTable,
                   fails |-> fails]
        /\ res' = IF fails
                  THEN serverError("Server error occurred while retrieving books.")
                  ELSE listResponse("Books retrieved successfully", "books",
                                    values(booksStorage))
        /\ UNCHANGED <<impl, tables, nextUuid, clock, created>>

\* POST /swapRequests
PostSwapRequests(bodies, max) ==
    \E body \in bodies, fails \in BOOLEAN :
        /\ UNCHANGED <<impl, clock>>
        /\ IF ~swapRequestsBodyOk(body)
           THEN /\ ~fails
                /\ req' = [method |-> "POST", path |-> "/swapRequests", body |-> body,
                           fails |-> FALSE]
                /\ res' = badRequest("Invalid input: Ensure 'bookId', 'requestedById', and 'status' are provided and are of the correct types.")
                /\ UNCHANGED <<tables, nextUuid, created>>
           ELSE LET swapRequest == SwapRequest(body.bookId, body.requestedById, body.status) IN
                /\ nextUuid < max
                /\ nextUuid' = nextUuid + 1
                /\ req' = [method |-> "POST", path |-> "/swapRequests", body |-> body,
                           fails |-> fails]
                /\ IF fails
                   THEN /\ res' = serverError("Server error occurred while creating the swap request.")
                        /\ UNCHANGED <<tables, created>>
                   ELSE /\ storeSwapRequest(swapRequest)
                        /\ res' = createdResponse("Swap request created successfully", "swapRequest", swapRequest)
                        /\ created' = recordCreated("/swapRequests", swapRequest)

\* GET /swapRequests
GetSwapRequests ==
    \E fails \in BOOLEAN :
        /\ req' = [method |-> "GET", path |-> "/swapRequests", body |-> EmptyTable,
                   fails |-> fails]
        /\ res' = IF fails
                  THEN serverError("Server error occurred while retrieving swap requests.")
                  ELSE listResponse("Swap requests retrieved successfully", "swapRequests",
                                    values(swapRequestsStorage))
        /\ UNCHANGED <<impl, tables, nextUuid, clock, created>>

\* POST /feedback
PostFeedback(bodies, max) ==
    \E body \in bodies, fails \in BOOLEAN :
        /\ UNCHANGED <<impl, clock>>
        /\ IF ~feedbackBodyOk(body)
           THEN /\ ~fails
                /\ req' = [method |-> "POST", path |-> "/feedback", body |-> body,
                           fails |-> FALSE]
                /\ res' = badRequest("Invalid input: Ensure 'userId', 'swapRequestId', 'rating', and 'comment' are provided and are of the correct types.")
                /\ UNCHANGED <<tables, nextUuid, created>>
           ELSE LET feedback == Feedback(body.userId, body.swapRequestId, body.rating, body.comment) IN
                /\ nextUuid < max
                /\ nextUuid' = nextUuid + 1
                /\ req' = [method |-> "POST", path |-> "/feedback", body |-> body,
                           fails |-> fails]
                /\ IF fails
                   THEN /\ res' = serverError("Server error occurred while creating the feedback.")
                        /\ UNCHANGED <<tables, created>>
                   ELSE /\ storeFeedback(feedback)
                        /\ res' = createdResponse("Feedback created successfully", "feedback", feedback)
                        /\ created' = recordCreated("/feedback", feedback)

\* GET /feedback
GetFeedback ==
    \E fails \in BOOLEAN :
        /\ req' = [method |-> "GET", path |-> "/feedback", body |-> EmptyTable,
                   fails |-> fails]
        /\ res' = IF fails
                  THEN serverError("Server error occurred while retrieving feedback.")
                  ELSE listResponse("Feedback retrieved successfully", "feedback",
                                    values(feedbackStorage))
        /\ UNCHANGED <<impl, tables, nextUuid, clock, created>>

\* Time passes between requests.
Tick ==
    /\ clock < MaxClock
    /\ clock' = clock + 1
    /\ UNCHANGED <<impl, tables, nextUuid, req, res, created>>

(***************************************************************************)
(* Request bodies.                                                         *)
(***************************************************************************)
\* a well-formed body of each create endpoint
UserBody == [name |-> Str("Ada"), email |-> Str("ada@example.com")]
BookBody == [userId |-> Str("id1"), title |-> Str("T"), author |-> Str("A"),
             description |-> Str("D")]
SwapRequestBody == [bookId |-> Str("id2"), requestedById |-> Str("id1"),
                    status |-> Str("pending")]
FeedbackBody == [userId |-> Str("id1"), swapRequestId |-> Str("id3"),
                 rating |-> Num(5), comment |-> Str("ok")]

\* the bodies of Spec: a well-formed one and the malformed ones of the
\* repository's scenarios
UserBodies == {UserBody, [UserBody EXCEPT !.email = Undefined]}
BookBodies == {BookBody, [BookBody EXCEPT !.description = Undefined]}
SwapRequestBodies == {SwapRequestBody, [SwapRequestBody EXCEPT !.status = Null]}
FeedbackBodies == {FeedbackBody, [FeedbackBody EXCEPT !.rating = Str("five")]}

\* the bodies of SpecValidation: a well-formed body with one field replaced
StringFieldValues == {Undefined, Null, Str(""), Num(5)}
RatingValues == {Undefined, Null, Str("five"), Num(0), Num(0 - 1)}
FieldValues(f) == IF f = "rating" THEN RatingValues ELSE StringFieldValues
OneFieldReplaced(body) ==
    {[body EXCEPT ![f] = v] : <<f, v>> \in
        UNION {{f} \X FieldValues(f) : f \in DOMAIN body}}

Next ==
    \/ PostUsers(UserBodies, MaxUuids)
    \/ GetUsers
    \/ PostBooks(BookBodies, MaxUuids)
    \/ GetBooks
    \/ PostSwapRequests(SwapRequestBodies, MaxUuids)
    \/ GetSwapRequests
    \/ PostFeedback(FeedbackBodies, MaxUuids)
    \/ GetFeedback
    \/ Tick

Spec == Init /\ [][Next]_vars

NextValidation ==
    \/ PostUsers(OneFieldReplaced(UserBody), MaxUuidsV)
    \/ GetUsers
    \/ PostBooks(OneFieldReplaced(BookBody), MaxUuidsV)
    \/ GetBooks
    \/ PostSwapRequests(OneFieldReplaced(SwapRequestBody), MaxUuidsV)
    \/ GetSwapRequests
    \/ PostFeedback(OneFieldReplaced(FeedbackBody), MaxUuidsV)
    \/ GetFeedback

SpecValidation == Init /\ [][NextValidation]_vars

(***************************************************************************)
(* Vocabulary of the properties.                                           *)
(***************************************************************************)
Table(p) ==
    CASE p = "/users" -> usersStorage
      [] p = "/books" -> booksStorage
      [] p = "/swapRequests" -> swapRequestsStorage
      [] p = "/feedback" -> feedbackStorage

\* the table of path p after the step
TableAfter(p) ==
    CASE p = "/users" -> usersStorage'
      [] p = "/books" -> booksStorage'
      [] p = "/swapRequests" -> swapRequestsStorage'
      [] p = "/feedback" -> feedbackStorage'

\* the fields of an entity that come from the request
DomainFields(e) == [f \in DOMAIN e \ {"id", "createdAt"} |-> e[f]]

\* a required field is absent, undefined or null
MissingField(body) ==
    \E f \in DOMAIN body : body[f] = Undefined \/ body[f] = Null

\* the type the contract expects of a field
HasExpectedType(f, v) ==
    IF f = "rating" THEN v.t = "number" ELSE v.t = "string" /\ v.s # ""

\* every required field is present and at least one has the wrong type
WrongType(body) ==
    /\ ~MissingField(body)
    /\ \E f \in DOMAIN body : ~HasExpectedType(f, body[f])

\* every required field is present with the expected type
WellTyped(body) ==
    \A f \in DOMAIN body : HasExpectedType(f, body[f])

\* what the deployed revision's validation makes of a body, from the body alone
AcceptsBody(path, body) ==
    CASE path = "/users" -> usersBodyOk(body)
      [] path = "/books" -> booksBodyOk(body)
      [] path = "/swapRequests" -> swapRequestsBodyOk(body)
      [] path = "/feedback" -> feedbackBodyOk(body)

\* the step handles a create request / a list request (and is not Tick,
\* which keeps req and res and moves the clock)
IsCreate == req'.method = "POST" /\ clock' = clock
IsList == req'.method = "GET" /\ clock' = clock

\* the step stored exactly the entity e in the table of path p
StoredExactly(p, e) ==
    /\ e.id \notin DOMAIN Table(p)
    /\ DOMAIN TableAfter(p) = DOMAIN Table(p) \cup {e.id}
    /\ TableAfter(p)[e.id] = e
    /\ \A k \in DOMAIN Table(p) : TableAfter(p)[k] = Table(p)[k]
    /\ \A q \in Paths \ {p} : TableAfter(q) = Table(q)

(***************************************************************************)
(* C1: a create request with a required field absent, undefined or null is *)
(* answered 400 and leaves every table as it was, and no table ever holds  *)
(* an entity with an absent or null field, so no list can return one.      *)
(***************************************************************************)
C1_MissingFieldRejected ==
    /\ [][IsCreate /\ MissingField(req'.body)
            => res'.status = 400 /\ res'.entities = {} /\ tables' = tables]_vars
    /\ [](\A p \in Paths : \A e \in values(Table(p)) : ~MissingField(DomainFields(e)))

\* a create with a missing field was refused while its table held an entity
C1_Witness ==
    /\ req.method = "POST"
    /\ MissingField(req.body)
    /\ res.status = 400
    /\ Table(req.path) # EmptyTable

(***************************************************************************)
(* C2: a create request whose required fields are all present but of which *)
(* one has the wrong type (a string field that is no string or is empty, a *)
(* rating that is no number) is answered 400 and nothing is stored.        *)
(***************************************************************************)
C2_WrongTypeRejected ==
    [][IsCreate /\ WrongType(req'.body)
         => res'.status = 400 /\ tables' = tables]_vars

(***************************************************************************)
(* C3: a create request whose required fields all have the expected type   *)
(* (rating any number, 0 and negative numbers included) and whose insert   *)
(* does not fail is answered 201 with the one entity it stored, whose      *)
(* fields are the request's values.                                        *)
(***************************************************************************)
C3_WellTypedCreated ==
    [][IsCreate /\ WellTyped(req'.body) /\ ~req'.fails
         => /\ res'.status = 201
            /\ \E e \in res'.entities :
                  /\ res'.entities = {e}
                  /\ DomainFields(e) = req'.body
                  /\ StoredExactly(req'.path, e)]_vars

(***************************************************************************)
(* C4: the entities of a table have distinct ids, a successful create      *)
(* returns an id that no entity of that type created before has, and it    *)
(* makes the table one entry larger, identical bodies included.            *)
(***************************************************************************)
C4_DistinctIds ==
    /\ [](\A p \in Paths :
            /\ \A k \in DOMAIN Table(p) : Table(p)[k].id = k
            /\ \A e1, e2 \in created[p] : e1.id = e2.id => e1 = e2)
    /\ [][IsCreate /\ res'.status = 201
            => \A e \in res'.entities :
                  /\ e.id \notin {x.id : x \in created[req'.path]}
                  /\ Cardinality(DOMAIN TableAfter(req'.path))
                       = Cardinality(DOMAIN Table(req'.path)) + 1]_vars

\* two users created from the same body are both stored
C4_Witness ==
    \E k1, k2 \in DOMAIN usersStorage :
        /\ k1 # k2
        /\ DomainFields(usersStorage[k1]) = DomainFields(usersStorage[k2])

(***************************************************************************)
(* C5: a list answered 200 returns exactly the entities of its type whose  *)
(* create was answered 201 before it, each once and none of another type,  *)
(* in any interleaving of requests.                                        *)
(***************************************************************************)
C5_ListIsWhatWasCreated ==
    req.method = "GET" /\ res.status = 200
        => /\ res.entities = created[req.path]
           /\ Cardinality({e.id : e \in res.entities}) = Cardinality(created[req.path])
           /\ \A q \in Paths \ {req.path} : res.entities \cap created[q] = {}

\* three users were created and the list returned the three of them
C5_Witness ==
    /\ req.method = "GET"
    /\ req.path = "/users"
    /\ res.status = 200
    /\ Cardinality({e.id : e \in res.entities}) = 3

(***************************************************************************)
(* C6: a stored entity stays in its table, unchanged, in every later       *)
(* state.                                                                  *)
(***************************************************************************)
C6_AppendOnly ==
    [][\A p \in Paths : \A k \in DOMAIN Table(p) :
          k \in DOMAIN TableAfter(p) /\ TableAfter(p)[k] = Table(p)[k]]_vars

\* a feedback is stored and a second feedback of the same user was created
C6_Witness ==
    /\ req.method = "POST"
    /\ req.path = "/feedback"
    /\ res.status = 201
    /\ \E e \in values(feedbackStorage) :
          e \notin res.entities /\ e.userId = req.body.userId

(***************************************************************************)
(* C7: a list request changes no table and returns what its table holds,   *)
(* and a table changes only by a successful create of its type; so two     *)
(* lists of a type with no create of that type between them return the     *)
(* same set.                                                               *)
(***************************************************************************)
C7_ListIsPureRead ==
    [][/\ IsList => tables' = tables
       /\ IsList /\ res'.status = 200
            => res'.entities = values(Table(req'.path))
       /\ \A p \in Paths :
            ~(IsCreate /\ req'.path = p /\ res'.status = 201)
                => TableAfter(p) = Table(p)
       /\ (/\ IsList /\ res'.status = 200
           /\ req.method = "GET" /\ req.path = req'.path /\ res.status = 200)
            => res'.entities = res.entities]_vars

\* a list of a table that holds an entity
C7_Witness ==
    /\ req.method = "GET"
    /\ res.status = 200
    /\ res.entities # {}
    /\ nextUuid >= 2

(***************************************************************************)
(* C8: when the insert of a create or the values() of a list throws, the   *)
(* answer is 500 with an error body and no table changes; the request      *)
(* after a 500 is handled as any other.                                    *)
(***************************************************************************)
C8_StorageFailure ==
    [][/\ req'.fails
            => /\ res'.status = 500
               /\ res'.error # ""
               /\ res'.entities = {}
               /\ tables' = tables
       /\ res.status = 500 /\ IsCreate /\ ~req'.fails
            => res'.status = IF AcceptsBody(req'.path, req'.body) THEN 201 ELSE 400]_vars

\* a create answered 201 after a create whose insert threw
C8_Witness ==
    /\ req.method = "POST"
    /\ res.status = 201
    /\ nextUuid = Cardinality(UNION {DOMAIN Table(p) : p \in Paths}) + 1

(***************************************************************************)
(* C9: what a create request is answered is decided by its body alone: the *)
(* body passes the validation and is stored with 201 (unless the insert    *)
(* throws), or it does not and is answered 400, whatever the tables hold;  *)
(* references to entities that are not stored are accepted.                *)
(***************************************************************************)
C9_NoForeignKeys ==
    req.method = "POST" /\ ~req.fails
        => /\ res.status = IF AcceptsBody(req.path, req.body) THEN 201 ELSE 400
           /\ res.status = 201 => res.entities \subseteq values(Table(req.path))

\* a book, a swap request and a feedback that refer to nothing stored
C9_Witness ==
    /\ req.method = "POST" /\ req.path = "/feedback" /\ res.status = 201
    /\ \E f \in values(feedbackStorage) :
          /\ f.userId.s \notin DOMAIN usersStorage
          /\ f.swapRequestId.s \notin DOMAIN swapRequestsStorage
    /\ \E b \in values(booksStorage) : b.userId.s \notin DOMAIN usersStorage
    /\ \E r \in values(swapRequestsStorage) :
          /\ r.bookId.s \notin DOMAIN booksStorage
          /\ r.requestedById.s \notin DOMAIN usersStorage

(***************************************************************************)
(* C10: a create answered 201 adds one entry to its own table and leaves   *)
(* the other three alone; a create answered 400 changes no table.          *)
(***************************************************************************)
C10_CreateFrame ==
    [][IsCreate
         => /\ res'.status = 201
                => \E e \in res'.entities : StoredExactly(req'.path, e)
            /\ res'.status = 400 => tables' = tables
            /\ \A q \in Paths \ {req'.path} : TableAfter(q) = Table(q)]_vars

\* a book was created while the users table held a user
C10_Witness ==
    /\ req.method = "POST"
    /\ req.path = "/books"
    /\ res.status = 201
    /\ usersStorage # EmptyTable

====
